---------------------------- MODULE Spec2Model ----------------------------
(***************************************************************************)
(* Model of pdc/apps/contact/serializers.py: the LimitField adapter, the   *)
(* polymorphic ContactField (get-or-create of Person / Maillist leaves     *)
(* with changeset logging), and UniqueRoleContactValidator as run by       *)
(* RoleContactSerializer on create and on (partial) update.                *)
(***************************************************************************)
EXTENDS Integers, Sequences, FiniteSets, TLC

VARIABLES
    unlimited_value,  \* LimitField.unlimited_value, fixed at construction
    lf,               \* the last LimitField conversion: op, input, output
    contacts,         \* the Contact table with its Person / Maillist leaves
    changeset,        \* request.changeset entries added so far
    roleContacts,     \* the RoleContact table
    converted,        \* history: payload -> id of the leaf its conversion returned
    last,             \* the last serializer operation and how it ended
    item_order,       \* the order in which field_to_class.items() enumerates
    reqs              \* in-flight concurrent create requests (RaceSpec)

vars == <<unlimited_value, lf, contacts, changeset, roleContacts, converted, last,
          item_order, reqs>>

----------------------------------------------------------------------------
(* Bounds of the model *)

MaxN == 11
MaxSentinel == 1
MaxStrLen == 2
MaxContacts == 2
MaxJoins == 2
MaxReqs == 2

----------------------------------------------------------------------------
(* LimitField (serializers.py 17-34) over rest_framework's IntegerField    *)

UNLIMITED_STR == <<"u", "n", "l", "i", "m", "i", "t", "e", "d">>

min_value == 0

DigitChars == <<"0", "1", "2", "3", "4", "5", "6", "7", "8", "9">>

IsDigit(c) == \E d \in 1..10 : DigitChars[d] = c

DigitVal(c) == (CHOOSE d \in 1..10 : DigitChars[d] = c) - 1

\* a wire value: a JSON integer or a JSON string (a sequence of characters)
IntV(n) == [t |-> "int", i |-> n, s |-> <<>>]
StrV(q) == [t |-> "str", i |-> 0, s |-> q]

\* the outcome of a conversion: a value, or a ValidationError
Ok(n) == [ok |-> TRUE, v |-> n]
ValidationError == [ok |-> FALSE, v |-> 0]

\* Python's str() of an integer
RECURSIVE NatToStr(_)
NatToStr(n) ==
    IF n < 10 THEN <<DigitChars[n + 1]>>
    ELSE Append(NatToStr(n \div 10), DigitChars[(n % 10) + 1])

PyStr(n) == IF n < 0 THEN <<"-">> \o NatToStr(0 - n) ELSE NatToStr(n)

\* IntegerField.re_decimal.sub('', s): drop a trailing "." followed by zeros
StripDecimal(q) ==
    LET hits == {i \in 1..Len(q) :
                    q[i] = "." /\ \A j \in (i + 1)..Len(q) : q[j] = "0"}
    IN IF hits = {} THEN q
       ELSE SubSeq(q, 1, (CHOOSE i \in hits : TRUE) - 1)

RECURSIVE DigitsToNat(_)
DigitsToNat(q) ==
    IF q = <<>> THEN 0
    ELSE 10 * DigitsToNat(SubSeq(q, 1, Len(q) - 1)) + DigitVal(q[Len(q)])

\* Python's int() of a string: an optional sign, then at least one digit
PyInt(q) ==
    LET neg  == Len(q) > 0 /\ q[1] = "-"
        body == IF neg THEN Tail(q) ELSE q
    IN IF body = <<>> \/ \E i \in 1..Len(body) : ~IsDigit(body[i])
       THEN ValidationError
       ELSE Ok(IF neg THEN 0 - DigitsToNat(body) ELSE DigitsToNat(body))

\* IntegerField.to_internal_value: int(re_decimal.sub('', str(data)))
IntegerField_to_internal_value(data) ==
    PyInt(StripDecimal(IF data.t = "int" THEN PyStr(data.i) ELSE data.s))

\* IntegerField.to_representation: int(value)
IntegerField_to_representation(obj) == IntV(obj)

LimitField_to_representation_NoSentinel(obj, unlimited) ==
    IntegerField_to_representation(obj)

LimitField_to_representation(obj, unlimited) ==
    IF obj = unlimited
    THEN StrV(UNLIMITED_STR)
    ELSE IntegerField_to_representation(obj)

LimitField_to_internal_value(value, unlimited) ==
    IF value.t = "str" /\ value.s = UNLIMITED_STR
    THEN Ok(unlimited)
    ELSE IntegerField_to_internal_value(value)

MinValueValidator_Off(v) == TRUE

\* the validator that kwargs['min_value'] = 0 installs (LimitField.__init__)
MinValueValidator(v) == v >= min_value

\* Field.run_validation: to_internal_value, then the field's validators
LimitField_run_validation(value, unlimited) ==
    LET r == LimitField_to_internal_value(value, unlimited)
    IN IF r.ok /\ ~MinValueValidator(r.v) THEN ValidationError ELSE r

----------------------------------------------------------------------------
(* Inputs of the LimitField specification *)

Alphabet == {"-", "0", "1", ".", "x"}

Sentinels == 0..MaxSentinel

Strings == UNION {[1..n -> Alphabet] : n \in 0..MaxStrLen}

NearMisses == {SubSeq(UNLIMITED_STR, 1, 8), <<"U">> \o Tail(UNLIMITED_STR),
               Append(UNLIMITED_STR, "0")}

LimitInputs ==
    {IntV(n) : n \in (0 - MaxN)..MaxN}
        \cup {StrV(q) : q \in Strings \cup NearMisses \cup {UNLIMITED_STR}}

NoLf == [op |-> "none", obj |-> 0, input |-> IntV(0), repr |-> IntV(0),
         res |-> Ok(0)]

\* outward conversion of a stored count_limit
LfToRepresentation(n) ==
    /\ lf' = [op |-> "repr", obj |-> n, input |-> IntV(0),
              repr |-> LimitField_to_representation(n, unlimited_value),
              res |-> Ok(0)]
    /\ UNCHANGED <<unlimited_value, contacts, changeset, roleContacts,
                   converted, last, item_order, reqs>>

\* inward conversion of what the outward conversion produced
LfRoundTrip ==
    /\ lf.op = "repr"
    /\ lf' = [lf EXCEPT !.op = "roundtrip", !.input = lf.repr,
                        !.res = LimitField_run_validation(lf.repr, unlimited_value)]
    /\ UNCHANGED <<unlimited_value, contacts, changeset, roleContacts,
                   converted, last, item_order, reqs>>

\* inward conversion of a request's count_limit
LfValidate(value) ==
    /\ lf' = [op |-> "validate", obj |-> 0, input |-> value, repr |-> IntV(0),
              res |-> LimitField_run_validation(value, unlimited_value)]
    /\ UNCHANGED <<unlimited_value, contacts, changeset, roleContacts,
                   converted, last, item_order, reqs>>

----------------------------------------------------------------------------
(* The contact tables and the ORM calls the serializers make              *)

\* Person and Maillist: the two leaf classes of Contact, with their own columns
LeafFields(cls) ==
    IF cls = "Person" THEN {"username", "email"} ELSE {"mail_name", "email"}

\* ContentType.objects.get_for_model(contact).model
ModelName(cls) == IF cls = "Person" THEN "person" ELSE "maillist"

ContactRoles == {[pk |-> 1, name |-> "qe"], [pk |-> 2, name |-> "dev"]}

Keys == {"username", "mail_name", "email"}

KeyValues(k) ==
    IF k = "username" THEN {"alice"}
    ELSE IF k = "mail_name" THEN {"list1"}
    ELSE {"a@x.com", "l@x.com"}

AllValues == UNION {KeyValues(k) : k \in Keys}

\* the wire-form mappings a request may carry as "contact"
Payloads ==
    {p \in UNION {[S -> AllValues] : S \in SUBSET Keys} :
        \A k \in DOMAIN p : p[k] \in KeyValues(k)}

NoContact == 0

\* no RoleContact instance: a create
NoInstance == [pk |-> 0, contact_role_id |-> 0, contact_id |-> 0]

\* a leaf row: the Contact id, its content type, its own columns
Leaf(id, cls, kwargs) ==
    [id |-> id, content_type |-> cls,
     fields |-> [k \in LeafFields(cls) |->
                    IF k \in DOMAIN kwargs THEN kwargs[k] ELSE ""]]

LeafById(table, id) == CHOOSE c \in table : c.id = id

\* clazz.objects.filter(**kwargs)
LeafMatches(table, cls, kwargs) ==
    {c \in table : c.content_type = cls
                   /\ \A k \in DOMAIN kwargs : c.fields[k] = kwargs[k]}

\* clazz.objects.get_or_create(**kwargs): get, and create when nothing matches;
\* a keyword that is no column of the class is a FieldError, several matches
\* are MultipleObjectsReturned
get_or_create(table, cls, kwargs) ==
    IF ~(DOMAIN kwargs \subseteq LeafFields(cls))
    THEN [outcome |-> "FieldError", contact |-> NoContact, created |-> FALSE,
          table |-> table]
    ELSE LET found == LeafMatches(table, cls, kwargs)
         IN IF Cardinality(found) > 1
            THEN [outcome |-> "MultipleObjectsReturned", contact |-> NoContact,
                  created |-> FALSE, table |-> table]
            ELSE IF Cardinality(found) = 1
            THEN [outcome |-> "ok", contact |-> (CHOOSE c \in found : TRUE).id,
                  created |-> FALSE, table |-> table]
            ELSE LET id == Cardinality(table) + 1
                 IN [outcome |-> "ok", contact |-> id, created |-> TRUE,
                     table |-> table \cup {Leaf(id, cls, kwargs)}]

----------------------------------------------------------------------------
(* ContactField (serializers.py 65-104)                                    *)

field_to_class_WithEmail ==
    [k \in Keys |-> IF k = "mail_name" THEN "Maillist" ELSE "Person"]

field_to_class ==
    [k \in {"username", "mail_name"} |->
        IF k = "username" THEN "Person" ELSE "Maillist"]

\* the orders in which field_to_class.items() may enumerate the dictionary
ItemOrders ==
    {o \in [1..Cardinality(DOMAIN field_to_class) -> DOMAIN field_to_class] :
        \A i, j \in DOMAIN o : i # j => o[i] # o[j]}

\* contact.export(): the leaf's own columns
export(leaf) == leaf.fields

ShouldLog_Always(created, request) == created

\* lines 95-98: "if created:" ... "if request:"
ShouldLog(created, request) == created /\ request # "None"

\* request.changeset.add(model_name, contact.id, 'null', json.dumps(contact.export()))
changeset_add(log, leaf) ==
    Append(log, [model |-> ModelName(leaf.content_type), id |-> leaf.id,
                 old |-> "null", new |-> export(leaf)])

\* ContactField.to_internal_value(data), the dictionary enumerated in `order`
ContactField_to_internal_value(data, request, order, table, log) ==
    LET hits == {i \in DOMAIN order : order[i] \in DOMAIN data}
    IN IF hits = {}
       THEN [outcome |-> "ValidationError", contact |-> NoContact,
             created |-> FALSE, table |-> table, log |-> log]
       ELSE LET first == CHOOSE i \in hits : \A j \in hits : i <= j
                r == get_or_create(table, field_to_class[order[first]], data)
            IN [outcome |-> r.outcome, contact |-> r.contact,
                created |-> r.created, table |-> r.table,
                log |-> IF r.outcome = "ok" /\ ShouldLog(r.created, request)
                        THEN changeset_add(log, LeafById(r.table, r.contact))
                        ELSE log]

\* the history of conversions: the leaf each converted payload returned
Remember(hist, data, r) ==
    IF r.outcome = "ok" /\ hist[data] = NoContact
    THEN [hist EXCEPT ![data] = r.contact]
    ELSE hist

Requests == {"None", "request"}

NoLast == [op |-> "none", outcome |-> "none", message |-> "", data |-> <<>>,
           request |-> "None", contact |-> NoContact, created |-> FALSE,
           role |-> "", before |-> NoInstance, keys |-> {}]

\* a serializer field's inward conversion of a contact payload on its own
ToInternalValue(data, request) ==
    \E r \in {ContactField_to_internal_value(data, request, item_order, contacts,
                                            changeset)} :
       /\ Cardinality(r.table) <= MaxContacts
       /\ contacts' = r.table
       /\ changeset' = r.log
       /\ converted' = Remember(converted, data, r)
       /\ last' = [NoLast EXCEPT !.op = "convert", !.outcome = r.outcome,
                                 !.data = data, !.request = request,
                                 !.contact = r.contact, !.created = r.created,
                                 !.keys = {"contact"}]
       /\ UNCHANGED <<unlimited_value, lf, roleContacts, item_order, reqs>>

----------------------------------------------------------------------------
(* UniqueRoleContactValidator (serializers.py 107-157)                     *)

RoleByName(name) == CHOOSE r \in ContactRoles : r.name = name

RoleByPk(pk) == CHOOSE r \in ContactRoles : r.pk = pk

\* ContactRole.objects.get(name=instance.name).pk
get_contact_role_pk(instance) ==
    (CHOOSE r \in ContactRoles : r.name = instance.name).pk

\* the relation through which a Contact row reaches its leaf row
RelationOf(c) == IF c.content_type = "Person" THEN "person__" ELSE "maillist__"

get_contact_pk_ByKindOnly(table, contact) ==
    LET leaf == LeafById(table, contact)
    IN [outcome |-> "ok",
        pk |-> (CHOOSE c \in table : c.content_type = leaf.content_type).id]

\* get_contact_pk: the Contact row whose leaf of the instance's kind carries
\* all of the leaf's non-key columns
get_contact_pk(table, contact) ==
    LET leaf_instance == LeafById(table, contact)
        query_prefix ==
            IF leaf_instance.content_type = "Person" THEN "person__"
            ELSE IF leaf_instance.content_type = "Maillist" THEN "maillist__"
            ELSE ""
        \* Contact.objects.get(**data): data holds prefix + name of every
        \* non-key column of the leaf, its content type included
        found == {c \in table :
                    /\ RelationOf(c) = query_prefix
                    /\ c.content_type = leaf_instance.content_type
                    /\ \A k \in DOMAIN leaf_instance.fields :
                           c.fields[k] = leaf_instance.fields[k]}
    IN IF query_prefix = ""
       THEN [outcome |-> "ValidationError", pk |-> NoContact]
       ELSE IF found = {}
       THEN [outcome |-> "DoesNotExist", pk |-> NoContact]
       ELSE IF Cardinality(found) > 1
       THEN [outcome |-> "MultipleObjectsReturned", pk |-> NoContact]
       ELSE [outcome |-> "ok", pk |-> (CHOOSE c \in found : TRUE).id]

filter_queryset_NoExclude(joins, instance, contact_role_id, contact_id) ==
    {j \in joins : j.contact_role_id = contact_role_id
                   /\ j.contact_id = contact_id} = {}

filter_queryset_Reserving(joins, instance, contact_role_id, contact_id) ==
    /\ {j \in joins : j.contact_role_id = contact_role_id
                      /\ j.contact_id = contact_id /\ j.pk # instance.pk} = {}
    /\ ~\E q \in DOMAIN reqs :
           /\ reqs[q].pc = "validated"
           /\ RoleByName(reqs[q].role).pk = contact_role_id
           /\ reqs[q].contact = contact_id

\* filter_queryset: TRUE when no other row shares both keys (no error raised)
filter_queryset(joins, instance, contact_role_id, contact_id) ==
    LET queryset == {j \in joins : j.contact_role_id = contact_role_id
                                   /\ j.contact_id = contact_id}
        others == IF instance # NoInstance
                  THEN {j \in queryset : j.pk # instance.pk}
                  ELSE queryset
    IN others = {}

\* value.get(key, default) on the validated data
ValueGet(value, key, default) ==
    IF key \in value.keys THEN value[key] ELSE default

validator_inputs_StoredRole(value, instance) ==
    IF instance # NoInstance
    THEN [crole |-> RoleByPk(instance.contact_role_id),
          contact |-> ValueGet(value, "contact", instance.contact_id)]
    ELSE [crole |-> value.contact_role, contact |-> value.contact]

\* lines 148-153: the role and contact to check, omitted ones from the instance
validator_inputs(value, instance) ==
    IF instance # NoInstance
    THEN [crole |-> ValueGet(value, "contact_role", RoleByPk(instance.contact_role_id)),
          contact |-> ValueGet(value, "contact", instance.contact_id)]
    ELSE [crole |-> value.contact_role, contact |-> value.contact]

\* UniqueRoleContactValidator.__call__(value), after set_context(serializer)
UniqueRoleContactValidator_call(value, instance, table, joins) ==
    LET inp == validator_inputs(value, instance)
        cpk == get_contact_pk(table, inp.contact)
    IN IF cpk.outcome # "ok" THEN [outcome |-> cpk.outcome, message |-> "contact"]
       ELSE IF filter_queryset(joins, instance, get_contact_role_pk(inp.crole), cpk.pk)
       THEN [outcome |-> "ok", message |-> ""]
       ELSE [outcome |-> "ValidationError", message |-> "unique"]

----------------------------------------------------------------------------
(* RoleContactSerializer (serializers.py 160-171): field conversion, the   *)
(* validator, then save                                                    *)

NoRole == [pk |-> 0, name |-> ""]

RoleNames == {r.name : r \in ContactRoles} \cup {"nosuch"}

JoinFields == {"contact_role", "contact"}

\* ChoiceSlugField(queryset=ContactRole.objects.all(), slug_field='name')
ChoiceSlugField_to_internal_value(name) ==
    IF \E r \in ContactRoles : r.name = name THEN RoleByName(name) ELSE NoRole

\* run_validation of the serializer: each supplied field is converted (errors
\* of the fields are collected, any other exception propagates at once), and
\* only then the Meta validators run
Serializer_run_validation(instance, keys, name, data, request, order, table, log, joins) ==
    LET crole == IF "contact_role" \in keys
                 THEN ChoiceSlugField_to_internal_value(name) ELSE NoRole
        c == IF "contact" \in keys
             THEN ContactField_to_internal_value(data, request, order, table, log)
             ELSE [outcome |-> "ok", contact |-> NoContact, created |-> FALSE,
                   table |-> table, log |-> log]
        value == [keys |-> keys, contact_role |-> crole, contact |-> c.contact]
    IN IF c.outcome \notin {"ok", "ValidationError"}
       THEN [outcome |-> c.outcome, message |-> "contact", value |-> value,
             created |-> FALSE, table |-> table, log |-> log]
       ELSE IF c.outcome = "ValidationError"
               \/ ("contact_role" \in keys /\ crole = NoRole)
       THEN [outcome |-> "ValidationError", message |-> "field", value |-> value,
             created |-> c.created, table |-> c.table, log |-> c.log]
       ELSE LET v == UniqueRoleContactValidator_call(value, instance, c.table, joins)
            IN [outcome |-> v.outcome, message |-> v.message, value |-> value,
                created |-> c.created, table |-> c.table, log |-> c.log]

\* ModelSerializer.create: RoleContact.objects.create(**validated_data)
RoleContact_create(joins, value) ==
    joins \cup {[pk |-> Cardinality(joins) + 1,
                 contact_role_id |-> value.contact_role.pk,
                 contact_id |-> value.contact]}

\* ModelSerializer.update: set the supplied attributes and save
RoleContact_update(joins, instance, value) ==
    (joins \ {instance}) \cup
        {[pk |-> instance.pk,
          contact_role_id |-> IF "contact_role" \in value.keys
                              THEN value.contact_role.pk
                              ELSE instance.contact_role_id,
          contact_id |-> IF "contact" \in value.keys
                         THEN value.contact ELSE instance.contact_id]}

IdleReq == [pc |-> "idle", role |-> "", contact |-> NoContact]

\* POST: both fields are required
CreateRoleContact(name, data, request) ==
    \E r \in {Serializer_run_validation(NoInstance, JoinFields, name, data, request,
                                       item_order, contacts, changeset,
                                       roleContacts)} :
       /\ Cardinality(r.table) <= MaxContacts
       /\ Cardinality(roleContacts) < MaxJoins \/ r.outcome # "ok"
       /\ contacts' = r.table
       /\ changeset' = r.log
       /\ roleContacts' = IF r.outcome = "ok"
                          THEN RoleContact_create(roleContacts, r.value)
                          ELSE roleContacts
       /\ last' = [NoLast EXCEPT !.op = "create", !.outcome = r.outcome,
                                 !.message = r.message, !.role = name,
                                 !.contact = r.value.contact,
                                 !.keys = JoinFields]
       /\ UNCHANGED <<unlimited_value, lf, converted, item_order, reqs>>

\* PATCH: any subset of the fields; the rest stay as stored
UpdateRoleContact(instance, keys, name, data, request) ==
    \E r \in {Serializer_run_validation(instance, keys, name, data, request,
                                       item_order, contacts, changeset,
                                       roleContacts)} :
       /\ instance \in roleContacts
       /\ Cardinality(r.table) <= MaxContacts
       /\ contacts' = r.table
       /\ changeset' = r.log
       /\ roleContacts' = IF r.outcome = "ok"
                          THEN RoleContact_update(roleContacts, instance, r.value)
                          ELSE roleContacts
       /\ last' = [NoLast EXCEPT !.op = "update", !.outcome = r.outcome,
                                 !.message = r.message, !.role = name,
                                 !.contact = r.value.contact,
                                 !.before = instance, !.keys = keys]
       /\ UNCHANGED <<unlimited_value, lf, converted, item_order, reqs>>

----------------------------------------------------------------------------
(* Sequential requests                                                     *)

Init ==
    /\ unlimited_value = 0
    /\ lf = NoLf
    /\ contacts = {}
    /\ changeset = <<>>
    /\ roleContacts = {}
    /\ converted = [p \in Payloads |-> NoContact]
    /\ last = NoLast
    /\ item_order \in ItemOrders
    /\ reqs = [q \in 1..MaxReqs |-> IdleReq]

\* inward conversions of contact payloads, one after the other
ContactNext ==
    \E data \in Payloads, request \in Requests : ToInternalValue(data, request)

ContactSpec == Init /\ [][ContactNext]_vars

\* the contact payloads of the RoleContact requests: a full Person, a full
\* Maillist, a Person by username alone, no distinguishing key, both keys
JoinPayloads ==
    {p \in Payloads :
        \/ DOMAIN p = {"username"}
        \/ DOMAIN p = {"username", "email"} /\ p["email"] = "a@x.com"
        \/ DOMAIN p = {"mail_name", "email"} /\ p["email"] = "l@x.com"
        \/ DOMAIN p = {"email"} /\ p["email"] = "a@x.com"
        \/ DOMAIN p = Keys /\ p["email"] = "a@x.com"}

\* RoleContact requests, one after the other; the views hand the serializer
\* their request in its context
Next ==
    \/ \E name \in RoleNames, data \in JoinPayloads :
           CreateRoleContact(name, data, "request")
    \/ \E instance \in roleContacts, keys \in SUBSET JoinFields :
           \E name \in IF "contact_role" \in keys THEN RoleNames ELSE {""},
              data \in IF "contact" \in keys THEN JoinPayloads ELSE {<<>>} :
               UpdateRoleContact(instance, keys, name, data, "request")

Spec == Init /\ [][Next]_vars

----------------------------------------------------------------------------
(* The LimitField conversions on their own                                 *)

LimitInit ==
    /\ unlimited_value \in Sentinels
    /\ lf = NoLf
    /\ contacts = {}
    /\ changeset = <<>>
    /\ roleContacts = {}
    /\ converted = [p \in Payloads |-> NoContact]
    /\ last = NoLast
    /\ item_order = CHOOSE o \in ItemOrders : TRUE
    /\ reqs = [q \in 1..MaxReqs |-> IdleReq]

LimitNext ==
    \/ \E n \in 0..MaxN : LfToRepresentation(n)
    \/ LfRoundTrip
    \/ \E value \in LimitInputs : LfValidate(value)

LimitSpec == LimitInit /\ [][LimitNext]_vars

----------------------------------------------------------------------------
(* Concurrent create requests: each runs its field conversion, then the    *)
(* validator's query, then the insert, as three separate database steps    *)

RaceValue(q) ==
    [keys |-> JoinFields, contact_role |-> RoleByName(reqs[q].role),
     contact |-> reqs[q].contact]

\* the request's fields are converted; the contact it names is already stored
RaceBegin(q, name, data) ==
    LET r == ContactField_to_internal_value(data, "request", item_order,
                                            contacts, changeset)
    IN /\ reqs[q].pc = "idle"
       /\ ChoiceSlugField_to_internal_value(name) # NoRole
       /\ r.outcome = "ok" /\ ~r.created
       /\ reqs' = [reqs EXCEPT ![q] = [pc |-> "converted", role |-> name,
                                       contact |-> r.contact]]
       /\ UNCHANGED <<unlimited_value, lf, contacts, changeset, roleContacts,
                      converted, last, item_order>>

\* UniqueRoleContactValidator runs its query against the rows stored now
RaceValidate(q) ==
    LET v == UniqueRoleContactValidator_call(RaceValue(q), NoInstance, contacts,
                                             roleContacts)
    IN /\ reqs[q].pc = "converted"
       /\ reqs' = [reqs EXCEPT ![q].pc = IF v.outcome = "ok" THEN "validated"
                                         ELSE "rejected"]
       /\ UNCHANGED <<unlimited_value, lf, contacts, changeset, roleContacts,
                      converted, last, item_order>>

\* serializer.save() of a request that passed validation
RaceSave(q) ==
    /\ reqs[q].pc = "validated"
    /\ roleContacts' = RoleContact_create(roleContacts, RaceValue(q))
    /\ reqs' = [reqs EXCEPT ![q].pc = "saved"]
    /\ UNCHANGED <<unlimited_value, lf, contacts, changeset, converted, last,
                   item_order>>

RaceInit ==
    /\ unlimited_value = 0
    /\ lf = NoLf
    /\ contacts = {Leaf(1, "Person", [username |-> "alice", email |-> "a@x.com"]),
                   Leaf(2, "Maillist", [mail_name |-> "list1", email |-> "l@x.com"])}
    /\ changeset = <<>>
    /\ roleContacts = {}
    /\ converted = [p \in Payloads |-> NoContact]
    /\ last = NoLast
    /\ item_order \in ItemOrders
    /\ reqs = [q \in 1..MaxReqs |-> IdleReq]

RaceNext ==
    \E q \in 1..MaxReqs :
        \/ \E name \in RoleNames, data \in JoinPayloads : RaceBegin(q, name, data)
        \/ RaceValidate(q)
        \/ RaceSave(q)

RaceSpec == RaceInit /\ [][RaceNext]_vars

----------------------------------------------------------------------------
(* Properties of LimitField (LimitSpec)                                    *)

\* C2: for every non-negative n other than the sentinel, the outward then
\* inward conversion returns n; the sentinel is rendered as "unlimited", and
\* "unlimited" converts inward to the sentinel.
C2_LimitRoundTrip ==
    /\ (lf.op = "roundtrip" /\ lf.obj # unlimited_value) => lf.res = Ok(lf.obj)
    /\ (lf.op \in {"repr", "roundtrip"} /\ lf.obj = unlimited_value)
           => lf.repr = StrV(UNLIMITED_STR)
    /\ (lf.op \in {"roundtrip", "validate"} /\ lf.input = StrV(UNLIMITED_STR))
           => lf.res = Ok(unlimited_value)

C2_Witness ==
    /\ lf.op = "roundtrip"
    /\ lf.obj # unlimited_value
    /\ lf.obj >= 10
    /\ lf.res = Ok(lf.obj)

\* a decimal numeral: an optional sign, digits, and possibly a fraction
IsNumeral(q) ==
    \E a \in 0..1, b \in 1..Len(q) :
        /\ a < b
        /\ a = 1 => q[1] = "-"
        /\ \A i \in (a + 1)..b : IsDigit(q[i])
        /\ b < Len(q) => (q[b + 1] = "." /\ \A i \in (b + 2)..Len(q) : IsDigit(q[i]))

----------------------------------------------------------------------------
(* Properties of ContactField.to_internal_value (ContactSpec)              *)

\* the leaf rows are pairwise different in kind or in some column
LeavesDistinct(table) ==
    \A c1, c2 \in table :
        (c1.content_type = c2.content_type /\ c1.fields = c2.fields) => c1 = c2

\* C4: the inward conversion is a canonical get-or-create: no two leaves of a
\* kind carry the same field values, and converting a payload that was
\* converted before returns the leaf it returned then and creates no leaf.
C4_CanonicalGetOrCreate ==
    /\ [](LeavesDistinct(contacts))
    /\ [][(last'.op = "convert" /\ converted[last'.data] # NoContact)
              => /\ last'.outcome = "ok"
                 /\ last'.contact = converted[last'.data]
                 /\ contacts' = contacts]_vars

\* the changeset entry of a leaf
EntryOf(leaf) ==
    [model |-> IF leaf.content_type = "Person" THEN "person" ELSE "maillist",
     id |-> leaf.id, old |-> "null", new |-> leaf.fields]

\* C5: a conversion adds exactly one changeset entry (entity type, new id,
\* 'null', the exported leaf) when and only when it created a leaf and a
\* request context is present; otherwise it adds none, and a conversion that
\* created a leaf without a request, or that found the leaf stored, still
\* returns that leaf.
C5_ChangesetOnlyOnCreate ==
    [][last'.op = "convert" =>
          LET new == contacts' \ contacts
              data == last'.data
          IN /\ Cardinality(new) <= 1
             /\ contacts \subseteq contacts'
             /\ IF new # {} /\ last'.request = "request"
                THEN changeset' = Append(changeset, EntryOf(CHOOSE c \in new : TRUE))
                ELSE changeset' = changeset
             /\ new # {} => /\ last'.outcome = "ok"
                            /\ last'.contact = (CHOOSE c \in new : TRUE).id
             /\ (new = {} /\ last'.outcome = "ok") =>
                    \E c \in contacts :
                        /\ c.id = last'.contact
                        /\ \A k \in DOMAIN data :
                               k \in DOMAIN c.fields /\ c.fields[k] = data[k]]_vars

C5_Witness ==
    /\ last.op = "convert"
    /\ last.created
    /\ last.request = "None"
    /\ Len(changeset) = 1
    /\ Cardinality(contacts) = 2

\* C6: a payload with neither "username" nor "mail_name" fails with a
\* validation error and creates no Person, Maillist or changeset entry.
C6_NoKeyRejected ==
    [][(/\ last'.op = "convert"
        /\ "username" \notin DOMAIN last'.data
        /\ "mail_name" \notin DOMAIN last'.data)
           => /\ last'.outcome = "ValidationError"
              /\ contacts' = contacts
              /\ changeset' = changeset]_vars

C6_Witness ==
    /\ last.op = "convert"
    /\ DOMAIN last.data = {"email"}
    /\ last.outcome = "ValidationError"
    /\ contacts # {}

\* C7: every failure of the inward contact conversion is a validation error;
\* in particular a payload with both "username" and "mail_name" is rejected
\* with a validation error.
C7_FailuresAreValidationErrors ==
    (last.op = "convert" /\ last.outcome # "ok") => last.outcome = "ValidationError"

----------------------------------------------------------------------------
(* Properties of UniqueRoleContactValidator under sequential requests (Spec) *)

SamePair(j1, j2) ==
    /\ j1.contact_role_id = j2.contact_role_id
    /\ LeafById(contacts, j1.contact_id).content_type
           = LeafById(contacts, j2.contact_id).content_type
    /\ LeafById(contacts, j1.contact_id).fields
           = LeafById(contacts, j2.contact_id).fields

ValidRole(name) == \E r \in ContactRoles : r.name = name

\* C1: no two stored RoleContact rows reference the same (role, underlying
\* leaf contact) pair, and a create whose role and contact match a stored row
\* fails with the uniqueness validation error and stores nothing.
C1_UniqueTogether ==
    /\ [](\A j1, j2 \in roleContacts : SamePair(j1, j2) => j1 = j2)
    /\ [][(/\ last'.op = "create"
           /\ ValidRole(last'.role)
           /\ \E j \in roleContacts :
                  /\ j.contact_role_id = RoleByName(last'.role).pk
                  /\ j.contact_id = last'.contact)
              => /\ last'.outcome = "ValidationError"
                 /\ last'.message = "unique"
                 /\ roleContacts' = roleContacts]_vars

C1_Witness ==
    /\ last.op = "create"
    /\ last.outcome = "ValidationError"
    /\ last.message = "unique"
    /\ Cardinality(roleContacts) = 2

\* C8: an update that supplies only contact_role is checked against (new role,
\* the record's stored contact): it fails with the uniqueness error exactly
\* when another row already holds the new role with the stored contact, and
\* otherwise the row takes the new role and keeps its contact.
C8_PartialUpdateUsesStoredContact ==
    [][(last'.op = "update" /\ last'.keys = {"contact_role"} /\ ValidRole(last'.role))
          => LET instance == last'.before
                 taken == \E j \in roleContacts :
                              /\ j.pk # instance.pk
                              /\ j.contact_role_id = RoleByName(last'.role).pk
                              /\ j.contact_id = instance.contact_id
             IN /\ instance \in roleContacts
                /\ IF taken
                   THEN /\ last'.outcome = "ValidationError"
                        /\ last'.message = "unique"
                        /\ roleContacts' = roleContacts
                   ELSE /\ last'.outcome = "ok"
                        /\ roleContacts' = (roleContacts \ {instance}) \cup
                               {[pk |-> instance.pk,
                                 contact_role_id |-> RoleByName(last'.role).pk,
                                 contact_id |-> instance.contact_id]}]_vars

C8_Witness ==
    /\ last.op = "update"
    /\ last.keys = {"contact_role"}
    /\ last.outcome = "ValidationError"
    /\ last.message = "unique"
    /\ last.role # RoleByPk(last.before.contact_role_id).name

\* C9: the uniqueness query leaves out the record being updated, so an update
\* to the role and contact the record already holds passes, while a create is
\* compared against every stored row: it is stored only if no row had its pair.
C9_ExcludesUpdatedRecord ==
    [][/\ (/\ last'.op = "update"
           /\ "contact_role" \in last'.keys =>
                  /\ ValidRole(last'.role)
                  /\ RoleByName(last'.role).pk = last'.before.contact_role_id
           /\ "contact" \in last'.keys => last'.contact = last'.before.contact_id)
              => /\ last'.outcome = "ok"
                 /\ roleContacts' = roleContacts
       /\ (last'.op = "create" /\ last'.outcome = "ok")
              => /\ ~\E j \in roleContacts :
                        /\ j.contact_role_id = RoleByName(last'.role).pk
                        /\ j.contact_id = last'.contact
                 /\ Cardinality(roleContacts') = Cardinality(roleContacts) + 1]_vars

C9_Witness ==
    /\ last.op = "update"
    /\ last.keys = JoinFields
    /\ last.outcome = "ok"
    /\ ValidRole(last.role)
    /\ RoleByName(last.role).pk = last.before.contact_role_id
    /\ last.contact = last.before.contact_id
    /\ Cardinality(roleContacts) = 2

----------------------------------------------------------------------------
(* The validator under concurrent requests (RaceSpec)                      *)

PairRows(role, contact) ==
    {j \in roleContacts : j.contact_role_id = RoleByName(role).pk
                          /\ j.contact_id = contact}

\* C10: the query-then-insert pattern is not race-free: the validator rejects
\* a request only for a row already stored, so requests that query before
\* either inserts all pass, and every request that passed is stored, whatever
\* was inserted in between.
C10_ValidatorAloneNotRaceFree ==
    /\ \A q \in DOMAIN reqs :
           reqs[q].pc = "rejected" => PairRows(reqs[q].role, reqs[q].contact) # {}
    /\ \A q \in DOMAIN reqs :
           reqs[q].pc = "saved" =>
               Cardinality(PairRows(reqs[q].role, reqs[q].contact))
                   = Cardinality({p \in DOMAIN reqs :
                                     /\ reqs[p].pc = "saved"
                                     /\ reqs[p].role = reqs[q].role
                                     /\ reqs[p].contact = reqs[q].contact})

C10_Witness ==
    \E j1, j2 \in roleContacts :
        /\ j1.pk # j2.pk
        /\ j1.contact_role_id = j2.contact_role_id
        /\ j1.contact_id = j2.contact_id

============================================================================
